---- MODULE Spec2Model ----
(***************************************************************************)
(* A model of nfldfs/games.py: find_games, which plans the set of source   *)
(* URLs for a range of seasons and weeks, and get_game_data, which walks a *)
(* collection of URLs, retrieves each document, parses its <pre> block and *)
(* accumulates the rows into one table.                                    *)
(*                                                                         *)
(* A URL is a sequence of string tokens (the literal pieces of the         *)
(* template and the formatted arguments), so that formatting a URL and     *)
(* searching it for the site tag are two different computations.           *)
(* An optional argument is <<>> when it is not given (None) and <<v>> when *)
(* it is given.                                                            *)
(***************************************************************************)
EXTENDS Integers, Sequences, FiniteSets, TLC

\* ------------------------------------------------------------------ bounds
SeasonSpan == 2
MaxWeek == 2
MaxUrls == 2
MaxLines == 2

\* the season of the docstring's example call
ExampleSeason == 2014

Sites == {"dk", "fd", "yh"}
SeasonValues == ExampleSeason..(ExampleSeason + SeasonSpan)
WeekValues == 0..MaxWeek

None == <<>>
Given(S) == {<<v>> : v \in S}

VARIABLES
    \* configuration read by find_games
    CURRENT_SEASON,
    \* find_games: the arguments of the last call, its locals and its outcome
    dfs_site, season_from, week_from, season_to, week_to,
    season_to_range, week_to_range, validator_call, find_status, found_urls,
    \* get_game_data: the argument, the position in the loop, the locals
    game_urls, pc, idx, dfs_site_name, response, data_string, data, all_data,
    returned, error,
    \* get_game_data: what the call did to the outside world, in order
    events, net_log

planVars == <<dfs_site, season_from, week_from, season_to, week_to,
              season_to_range, week_to_range, validator_call, find_status,
              found_urls>>
fetchVars == <<game_urls, pc, idx, dfs_site_name, response, data_string, data,
               all_data, returned, error, events, net_log>>
vars == <<CURRENT_SEASON, planVars, fetchVars>>

\* ------------------------------------------------------- find_games helpers

\* a or b, for an optional integer a: None and 0 are both falsy
PyOr(a, b) == IF a = None THEN b ELSE IF a[1] = 0 THEN b ELSE a[1]

\* [*range(a, b)]
rangeInclusive(a, b) == [k \in 1..(IF b >= a THEN b - a + 1 ELSE 0) |-> a + k - 1]
rangeReversed(a, b) ==
    IF b > a THEN [k \in 1..(b - a) |-> a + k - 1]
             ELSE [k \in 1..(a - b) |-> b + k]
range(a, b) == [k \in 1..(IF b > a THEN b - a ELSE 0) |-> a + k - 1]

ListElems(l) == {l[k] : k \in DOMAIN l}

BaseUrl == "http://rotoguru1.com/cgi-bin/fyday.pl?"

\* CURRENT_SEASON_BASE_URL.format(w, site)
CURRENT_SEASON_BASE_URL(w, site) ==
    <<BaseUrl, "week=", ToString(w), "&game=", site, "&scsv=1">>

\* PREVIOUS_SEASON_BASE_URL.format(w, s, site)
PREVIOUS_SEASON_BASE_URL(w, s, site) ==
    <<BaseUrl, "week=", ToString(w), "&year=", ToString(s), "&game=", site, "&scsv=1">>

\* CURRENT_SEASON in seasons
includeAlways(seasons, cur) == TRUE
include_current_season(seasons, cur) == cur \in ListElems(seasons)

\* set([CURRENT_SEASON_BASE_URL.format(w, dfs_site) for w in weeks if include_current_season])
currentWithYear(weeks, seasons, site, cur) ==
    {PREVIOUS_SEASON_BASE_URL(weeks[i], cur, site) :
        i \in {k \in DOMAIN weeks : include_current_season(seasons, cur)}}
current_season_urls(weeks, seasons, site, cur) ==
    {CURRENT_SEASON_BASE_URL(weeks[i], site) :
        i \in {k \in DOMAIN weeks : include_current_season(seasons, cur)}}

\* set([PREVIOUS_SEASON_BASE_URL.format(w, s, dfs_site)
\*      for w, s in itertools.product(weeks, seasons) if s != CURRENT_SEASON])
previousUnfiltered(weeks, seasons, site, cur) ==
    {PREVIOUS_SEASON_BASE_URL(weeks[p[1]], seasons[p[2]], site) :
        p \in (DOMAIN weeks) \X (DOMAIN seasons)}
previous_season_urls(weeks, seasons, site, cur) ==
    {PREVIOUS_SEASON_BASE_URL(weeks[p[1]], seasons[p[2]], site) :
        p \in {q \in (DOMAIN weeks) \X (DOMAIN seasons) : seasons[q[2]] # cur}}

\* lines 61-76: the URL set of a call whose parameters the validator accepted
game_urls_of(site, sf, wf, st_range, wt_range, cur) ==
    LET seasons == range(sf, st_range + 1)
        weeks == range(wf, wt_range + 1)
    IN  current_season_urls(weeks, seasons, site, cur)
            \cup previous_season_urls(weeks, seasons, site, cur)

\* ------------------------------------------------------------- find_games

\* One call of find_games. The validator's rules are not part of this file:
\* it either returns or raises, and when it raises nothing is returned.
find_games(site, sf, wf, st, wt, accepts) ==
    LET st_range == PyOr(st, sf)
        wt_range == PyOr(wt, wf)
    IN  /\ dfs_site' = site
        /\ season_from' = sf
        /\ week_from' = wf
        /\ season_to' = st
        /\ week_to' = wt
        /\ season_to_range' = st_range
        /\ week_to_range' = wt_range
        /\ validator_call' = [dfs_site |-> site, season_from |-> sf,
                              season_to |-> st_range, week_from |-> wf,
                              week_to |-> wt_range]
        /\ \/ /\ accepts
              /\ find_status' = "returned"
              /\ found_urls' = game_urls_of(site, sf, wf, st_range, wt_range,
                                            CURRENT_SEASON)
           \/ /\ ~accepts
              /\ find_status' = "raised"
              /\ found_urls' = {}

FindGames ==
    /\ find_status = "none"
    /\ \E site \in Sites, sf \in SeasonValues, wf \in WeekValues,
          st \in {None} \cup Given(SeasonValues \cup {0}),
          wt \in {None} \cup Given(WeekValues),
          accepts \in BOOLEAN :
            find_games(site, sf, wf, st, wt, accepts)
    /\ UNCHANGED <<CURRENT_SEASON, fetchVars>>

PlanInit ==
    /\ CURRENT_SEASON \in SeasonValues
    /\ dfs_site = "dk"
    /\ season_from = ExampleSeason
    /\ week_from = 1
    /\ season_to = None
    /\ week_to = None
    /\ season_to_range = ExampleSeason
    /\ week_to_range = 1
    /\ validator_call = [dfs_site |-> "dk", season_from |-> ExampleSeason,
                         season_to |-> ExampleSeason, week_from |-> 1,
                         week_to |-> 1]
    /\ find_status = "none"
    /\ found_urls = {}

FetchInit ==
    /\ game_urls = <<>>
    /\ pc = "idle"
    /\ idx = 1
    /\ dfs_site_name = ""
    /\ response = [pre |-> None]
    /\ data_string = <<>>
    /\ data = <<>>
    /\ all_data = <<>>
    /\ returned = None
    /\ error = "none"
    /\ events = <<>>
    /\ net_log = <<>>

Init == PlanInit /\ FetchInit

PlanNext == FindGames
SpecPlan == Init /\ [][PlanNext]_vars

\* ------------------------------------------------------ find_games: claims

\* the inclusive ranges of the call, from its resolved upper bounds
WeekRange == week_from..week_to_range
SeasonRange == season_from..season_to_range

UsesHistoricalTemplate(u) ==
    \E w \in WeekValues, s \in SeasonValues \cup {0}, d \in Sites :
        u = PREVIOUS_SEASON_BASE_URL(w, s, d)
UsesCurrentTemplate(u) ==
    \E w \in WeekValues, d \in Sites : u = CURRENT_SEASON_BASE_URL(w, d)

\* the URL the claim asks for, for one week and one season
UrlFor(w, s, site) ==
    IF s = CURRENT_SEASON THEN CURRENT_SEASON_BASE_URL(w, site)
                          ELSE PREVIOUS_SEASON_BASE_URL(w, s, site)

\* C1: the returned set is exactly the set of the URLs of the (week, season)
\* pairs of the two inclusive ranges: the current-season template for
\* CURRENT_SEASON, the historical template for every other season.
C1_ExactUrlSet ==
    find_status = "returned" =>
        found_urls = {UrlFor(p[1], p[2], dfs_site) : p \in WeekRange \X SeasonRange}

\* a returned set for a range that spans a past season and the current one,
\* holding URLs of both templates
C1_Witness ==
    /\ find_status = "returned"
    /\ season_from < CURRENT_SEASON
    /\ CURRENT_SEASON <= season_to_range
    /\ week_from < week_to_range
    /\ \E u \in found_urls : UsesHistoricalTemplate(u)
    /\ \E u \in found_urls : UsesCurrentTemplate(u)

\* C2: a call with neither season_to nor week_to, which the validator accepts,
\* returns exactly one URL.
C2_SingleUrl ==
    (find_status = "returned" /\ season_to = None /\ week_to = None) =>
        Cardinality(found_urls) = 1

C2_Witness ==
    /\ find_status = "returned"
    /\ season_to = None
    /\ week_to = None
    /\ season_from # CURRENT_SEASON
    /\ found_urls = {PREVIOUS_SEASON_BASE_URL(week_from, season_from, dfs_site)}

\* C3: when CURRENT_SEASON is not in the season range, every returned URL is
\* built from the historical template and none from the current-season one.
C3_HistoricalOnly ==
    (find_status = "returned" /\ CURRENT_SEASON \notin SeasonRange) =>
        \A u \in found_urls : UsesHistoricalTemplate(u) /\ ~UsesCurrentTemplate(u)

C3_Witness ==
    /\ find_status = "returned"
    /\ CURRENT_SEASON \notin SeasonRange
    /\ Cardinality(found_urls) >= 4

\* C4: when the season range holds CURRENT_SEASON only, the returned set has
\* one URL per week of the week range, and no URL mentions the season.
C4_CurrentOnly ==
    (find_status = "returned" /\ SeasonRange = {CURRENT_SEASON}) =>
        /\ Cardinality(found_urls) = Cardinality(WeekRange)
        /\ \A u \in found_urls : ToString(season_from) \notin ListElems(u)

C4_Witness ==
    /\ find_status = "returned"
    /\ SeasonRange = {CURRENT_SEASON}
    /\ Cardinality(WeekRange) >= 2
    /\ Cardinality(found_urls) = Cardinality(WeekRange)

\* C5: week_to and season_to are replaced by week_from and season_from only
\* when they are not given; a given value, 0 included, is the upper bound of
\* its range and the value passed to the validator.
C5_GivenBoundsUnchanged ==
    find_status # "none" =>
        /\ season_to_range = (IF season_to = None THEN season_from ELSE season_to[1])
        /\ week_to_range = (IF week_to = None THEN week_from ELSE week_to[1])
        /\ validator_call.season_to = season_to_range
        /\ validator_call.week_to = week_to_range

\* C6: an inverted week range or an inverted season range yields the empty
\* set, not an error, when the validator accepts the parameters.
C6_InvertedRangeEmpty ==
    (find_status = "returned"
        /\ (week_from > week_to_range \/ season_from > season_to_range)) =>
        found_urls = {}

\* an inverted season range with CURRENT_SEASON between its bounds
C6_Witness ==
    /\ find_status = "returned"
    /\ season_from > CURRENT_SEASON
    /\ CURRENT_SEASON > season_to_range
    /\ week_from <= week_to_range
    /\ found_urls = {}


\* ---------------------------------------------------- get_game_data helpers

\* URLs the caller may pass: two that find_games builds, for different sites,
\* and one without the trailing &scsv=1
MalformedUrl == <<BaseUrl, "week=", "1", "&game=", "dk">>
UrlUniverse ==
    {PREVIOUS_SEASON_BASE_URL(1, ExampleSeason, "dk"),
     CURRENT_SEASON_BASE_URL(1, "fd"),
     MalformedUrl}

\* the lines a <pre> block may hold: two rows read_csv parses, and one it
\* cannot tokenize
Lines == {"a", "b", "bad"}

SeqsUpTo(S, n) == UNION {[1..k -> S] : k \in 0..n}

\* a retrieved document: its first <pre> block, if it has one
Documents == {[pre |-> None]} \cup {[pre |-> <<b>>] : b \in SeqsUpTo(Lines, MaxLines)}

SetMin(S) == CHOOSE x \in S : \A y \in S : x <= y
SetMax(S) == CHOOSE x \in S : \A y \in S : x >= y

\* the text of a run of tokens
RECURSIVE JoinTokens(_)
JoinTokens(toks) ==
    IF toks = <<>> THEN "" ELSE Head(toks) \o JoinTokens(Tail(toks))

\* re.search of the pattern game=, a greedy group, &scsv=1 in url: None, or
\* the match's group 1, the text between the first game= and the last
\* &scsv=1 that follows it
re_search(url) ==
    LET starts == {i \in DOMAIN url : url[i] = "&game="}
        ends == {j \in DOMAIN url : url[j] = "&scsv=1" /\ j > SetMin(starts)}
    IN  IF starts = {} THEN None
        ELSE IF ends = {} THEN None
        ELSE <<JoinTokens(SubSeq(url, SetMin(starts) + 1, SetMax(ends) - 1))>>

\* the lines read_csv reads with skiprows=1
skiprows1(lines) == IF lines = <<>> THEN <<>> ELSE Tail(lines)

\* read_csv raises when a line it reads cannot be tokenized
read_csv_raises(lines) == \E k \in DOMAIN skiprows1(lines) : skiprows1(lines)[k] = "bad"

\* the frame read_csv returns, with data['dfs_site'] = dfs_site_name
read_csv_tagged(lines, tag) ==
    [k \in DOMAIN skiprows1(lines) |-> [row |-> skiprows1(lines)[k], dfs_site |-> tag]]

\* pd.concat(objs=[all_data, data])
concatReversed(a, b) == b \o a
concat(a, b) == a \o b

Raise(kind) ==
    /\ pc' = "raised"
    /\ error' = kind

\* ---------------------------------------------------------- get_game_data

\* the call: all_data = pd.DataFrame()
Call ==
    /\ pc = "idle"
    /\ \E urls \in SeqsUpTo(UrlUniverse, MaxUrls) : game_urls' = urls
    /\ pc' = "for"
    /\ idx' = 1
    /\ all_data' = <<>>
    /\ UNCHANGED <<dfs_site_name, response, data_string, data, returned, error,
                   events, net_log>>
    /\ UNCHANGED <<CURRENT_SEASON, planVars>>

\* for url in game_urls: the next URL, or return all_data after the last
For ==
    /\ pc = "for"
    /\ \/ /\ idx <= Len(game_urls)
          /\ pc' = "search"
          /\ UNCHANGED returned
       \/ /\ idx > Len(game_urls)
          /\ pc' = "done"
          /\ returned' = <<all_data>>
    /\ UNCHANGED <<game_urls, idx, dfs_site_name, response, data_string, data,
                   all_data, error, events, net_log>>
    /\ UNCHANGED <<CURRENT_SEASON, planVars>>

\* dfs_site_name = re.search(...).group(1)
SearchLenient ==
    /\ pc = "search"
    /\ dfs_site_name' = IF re_search(game_urls[idx]) = None THEN ""
                        ELSE re_search(game_urls[idx])[1]
    /\ pc' = "get"
    /\ UNCHANGED <<game_urls, idx, response, data_string, data, all_data,
                   returned, error, events, net_log>>
    /\ UNCHANGED <<CURRENT_SEASON, planVars>>
Search ==
    /\ pc = "search"
    /\ \/ /\ re_search(game_urls[idx]) = None
          /\ Raise("AttributeError: search")
          /\ UNCHANGED dfs_site_name
       \/ /\ re_search(game_urls[idx]) # None
          /\ dfs_site_name' = re_search(game_urls[idx])[1]
          /\ pc' = "get"
          /\ UNCHANGED error
    /\ UNCHANGED <<game_urls, idx, response, data_string, data, all_data,
                   returned, events, net_log>>
    /\ UNCHANGED <<CURRENT_SEASON, planVars>>

\* response = requests.get(url).text: the retrieval raises, or yields a document
Get ==
    /\ pc = "get"
    /\ events' = Append(events, <<"get", idx>>)
    /\ \/ /\ Raise("RequestException")
          /\ net_log' = Append(net_log, [url |-> game_urls[idx], ok |-> FALSE,
                                         doc |-> [pre |-> None]])
          /\ UNCHANGED response
       \/ /\ \E d \in Documents :
                /\ response' = d
                /\ net_log' = Append(net_log, [url |-> game_urls[idx], ok |-> TRUE,
                                               doc |-> d])
          /\ pc' = "find"
          /\ UNCHANGED error
    /\ UNCHANGED <<game_urls, idx, dfs_site_name, data_string, data, all_data,
                   returned>>
    /\ UNCHANGED <<CURRENT_SEASON, planVars>>

\* data_string = StringIO(soup.find("pre").text)
FindPreLenient ==
    /\ pc = "find"
    /\ data_string' = IF response.pre = None THEN <<>> ELSE response.pre[1]
    /\ pc' = "read_csv"
    /\ UNCHANGED <<game_urls, idx, dfs_site_name, response, data, all_data,
                   returned, error, events, net_log>>
    /\ UNCHANGED <<CURRENT_SEASON, planVars>>
FindPre ==
    /\ pc = "find"
    /\ \/ /\ response.pre = None
          /\ Raise("AttributeError: find")
          /\ UNCHANGED data_string
       \/ /\ response.pre # None
          /\ data_string' = response.pre[1]
          /\ pc' = "read_csv"
          /\ UNCHANGED error
    /\ UNCHANGED <<game_urls, idx, dfs_site_name, response, data, all_data,
                   returned, events, net_log>>
    /\ UNCHANGED <<CURRENT_SEASON, planVars>>

\* data = pd.read_csv(data_string, ...); data['dfs_site'] = dfs_site_name
ReadCsv ==
    /\ pc = "read_csv"
    /\ \/ /\ read_csv_raises(data_string)
          /\ Raise("ParserError")
          /\ UNCHANGED data
       \/ /\ ~read_csv_raises(data_string)
          /\ data' = read_csv_tagged(data_string, dfs_site_name)
          /\ pc' = "concat"
          /\ UNCHANGED error
    /\ UNCHANGED <<game_urls, idx, dfs_site_name, response, data_string,
                   all_data, returned, events, net_log>>
    /\ UNCHANGED <<CURRENT_SEASON, planVars>>

\* all_data = pd.concat(objs=[all_data, data])
Concat ==
    /\ pc = "concat"
    /\ all_data' = concat(all_data, data)
    /\ events' = Append(events, <<"append", idx>>)
    /\ pc' = "sleep"
    /\ UNCHANGED <<game_urls, idx, dfs_site_name, response, data_string, data,
                   returned, error, net_log>>
    /\ UNCHANGED <<CURRENT_SEASON, planVars>>

\* time.sleep(0.25), then the loop's next iteration
SleepSkipped ==
    /\ pc = "sleep"
    /\ idx' = idx + 1
    /\ pc' = "for"
    /\ UNCHANGED <<game_urls, dfs_site_name, response, data_string, data,
                   all_data, returned, error, events, net_log>>
    /\ UNCHANGED <<CURRENT_SEASON, planVars>>
Sleep ==
    /\ pc = "sleep"
    /\ events' = Append(events, <<"sleep", idx>>)
    /\ idx' = idx + 1
    /\ pc' = "for"
    /\ UNCHANGED <<game_urls, dfs_site_name, response, data_string, data,
                   all_data, returned, error, net_log>>
    /\ UNCHANGED <<CURRENT_SEASON, planVars>>

FetchNext ==
    \/ Call
    \/ For
    \/ Search
    \/ Get
    \/ FindPre
    \/ ReadCsv
    \/ Concat
    \/ Sleep

\* get_game_data does not read CURRENT_SEASON: one value of it is enough
InitFetch == Init /\ CURRENT_SEASON = ExampleSeason
SpecFetch == InitFetch /\ [][FetchNext]_vars

\* --------------------------------------------------- get_game_data: claims

\* the site a URL built from one of the two templates is for
SiteOf(u) ==
    CHOOSE d \in Sites :
        \/ \E w \in WeekValues : u = CURRENT_SEASON_BASE_URL(w, d)
        \/ \E w \in WeekValues, s \in SeasonValues : u = PREVIOUS_SEASON_BASE_URL(w, s, d)

HasQueryShape(u) ==
    \E i, j \in DOMAIN u : i < j /\ u[i] = "&game=" /\ u[j] = "&scsv=1"

\* the data rows of a block: its lines but the first
DataRows(block) == [j \in 1..(Len(block) - 1) |-> block[j + 1]]

\* the processing of the k-th URL of the call went through
ProcessedOk(k) ==
    /\ HasQueryShape(game_urls[k])
    /\ k <= Len(net_log)
    /\ net_log[k].ok
    /\ net_log[k].doc.pre # None
    /\ \A j \in DOMAIN DataRows(net_log[k].doc.pre[1]) :
            DataRows(net_log[k].doc.pre[1])[j] # "bad"

\* C7: the call is all-or-nothing: once the processing of a URL fails the
\* call raises and returns no table, whatever was appended before; a table is
\* returned only when every URL was processed successfully, and a document
\* without a data block is in no returned table.
C7_AllOrNothing ==
    /\ pc = "raised" => returned = None
    /\ returned # None =>
        /\ pc = "done"
        /\ Len(net_log) = Len(game_urls)
        /\ \A k \in DOMAIN game_urls : ProcessedOk(k)
    /\ \A k \in DOMAIN net_log :
        (~net_log[k].ok \/ net_log[k].doc.pre = None \/ ~ProcessedOk(k)) =>
            /\ k = Len(net_log)
            /\ pc \in {"find", "read_csv", "raised"}
            /\ returned = None

\* a call that raises on its second URL after the rows of the first were
\* appended
C7_Witness ==
    /\ pc = "raised"
    /\ all_data # <<>>
    /\ returned = None
    /\ Len(net_log) = 2
    /\ net_log[2].ok
    /\ net_log[2].doc.pre = None

\* C8, as claimed: a call whose collection holds a URL without the query
\* shape fails on that URL's site-tag extraction, and has attempted no
\* retrieval when it fails.
C8_NoRetrievalBeforeTagFailure ==
    (pc \in {"raised", "done"} /\ \E k \in DOMAIN game_urls : ~HasQueryShape(game_urls[k])) =>
        /\ error = "AttributeError: search"
        /\ net_log = <<>>

\* C8, amended: a URL without the query shape is never retrieved; a call that
\* reaches it fails on its site-tag extraction, having retrieved exactly the
\* URLs before it; and a call whose collection holds such a URL never returns.
C8_MalformedUrlNeverRetrieved ==
    /\ \A k \in DOMAIN net_log : HasQueryShape(net_log[k].url)
    /\ (pc \in {"get", "find", "read_csv", "concat", "sleep"}) =>
            HasQueryShape(game_urls[idx])
    /\ (pc = "raised" /\ error = "AttributeError: search") =>
        /\ ~HasQueryShape(game_urls[idx])
        /\ Len(net_log) = idx - 1
        /\ \A k \in 1..(idx - 1) : net_log[k].url = game_urls[k]
    /\ (pc = "done") => \A k \in DOMAIN game_urls : HasQueryShape(game_urls[k])

\* a call that fails on the site tag of its second URL, the first retrieved
C8_Witness ==
    /\ pc = "raised"
    /\ error = "AttributeError: search"
    /\ idx = 2
    /\ Len(net_log) = 1
    /\ ~HasQueryShape(game_urls[2])

\* the table the claim asks for after the first k URLs
RECURSIVE TableOf(_)
TableOf(k) ==
    IF k = 0 THEN <<>>
    ELSE TableOf(k - 1) \o
         [j \in DOMAIN DataRows(net_log[k].doc.pre[1]) |->
            [row |-> DataRows(net_log[k].doc.pre[1])[j],
             dfs_site |-> SiteOf(game_urls[k])]]

RECURSIVE RowCount(_)
RowCount(k) ==
    IF k = 0 THEN 0 ELSE RowCount(k - 1) + Len(DataRows(net_log[k].doc.pre[1]))

\* C9: the table a call returns is the concatenation, in URL order, of the
\* data rows of each URL's document, each row tagged with the site of the URL
\* it came from; nothing is dropped, so it has as many rows as the documents
\* have data rows.
C9_TableIsConcatenation ==
    pc = "done" =>
        /\ returned = <<TableOf(Len(game_urls))>>
        /\ Len(returned[1]) = RowCount(Len(game_urls))

\* a returned table with a row of each of two URLs for different sites
C9_Witness ==
    /\ pc = "done"
    /\ Len(game_urls) = 2
    /\ Len(returned[1]) = 2
    /\ returned[1][1].dfs_site = "dk"
    /\ returned[1][2].dfs_site = "fd"
    /\ returned[1][1].row # returned[1][2].row

\* what a call of n URLs does, in order: retrieve, append, pause, for each URL
Canonical(n) ==
    [p \in 1..(3 * n) |->
        <<(CASE p % 3 = 1 -> "get" [] p % 3 = 2 -> "append" [] OTHER -> "sleep"),
          (p + 2) \div 3>>]

\* C10: URLs are processed one at a time in iteration order: what the call
\* has done is always a prefix of retrieve 1, append 1, pause 1, retrieve 2,
\* ...; the retrievals are those of the URLs in order, each once; and a call
\* that returns has done all of it.
C10_StrictlySequential ==
    /\ Len(events) <= 3 * Len(game_urls)
    /\ \A p \in DOMAIN events : events[p] = Canonical(Len(game_urls))[p]
    /\ Len(net_log) <= Len(game_urls)
    /\ \A k \in DOMAIN net_log : net_log[k].url = game_urls[k]
    /\ pc = "done" =>
        /\ events = Canonical(Len(game_urls))
        /\ Len(net_log) = Len(game_urls)

\* the second URL is being retrieved, after the pause that followed the first
C10_Witness ==
    /\ pc = "find"
    /\ idx = 2
    /\ events = <<<<"get", 1>>, <<"append", 1>>, <<"sleep", 1>>, <<"get", 2>>>>

====
